---------------------------- MODULE Spec2Model ----------------------------
(***************************************************************************)
(* Model of the memorick statistics engine: the client's SyncGameDatabase  *)
(* (src/database_sync.py) with its local sqlite store, the Flask           *)
(* statistics server (src/server/server.py) and the network between them.  *)
(*                                                                         *)
(* Times are integers in milliseconds.  A python dict is a TLA+ record:    *)
(* a key the code does not set is a field the record does not have.        *)
(***************************************************************************)
EXTENDS Integers, Sequences, FiniteSets, TLC

(***************************************************************************)
(* Bounds of the model.                                                    *)
(***************************************************************************)
MaxSaves == 1
MaxLimit == 2
MaxInFlight == 1
MaxId == 3
MaxList == 3
MaxDownSaves == 2
MaxLocalCount == 21
MaxThreads == 2
MaxWipeSaves == 2
MaxWipeId == 4

(***************************************************************************)
(* Program constants.                                                      *)
(***************************************************************************)
max_retries == 5
CLIENT_ID == "c1"
Difficulties == <<"Easy", "Medium", "Hard">>
DefaultMatches == 8
RefreshLimit == 100

(***************************************************************************)
(* Inputs: the game ends the application reports, the clock readings, and  *)
(* the answers a remote can give.                                          *)
(***************************************************************************)
Game(p, d, s, e, mv, mt, c) ==
    [player_name |-> p, difficulty |-> d, start_time |-> s, end_time |-> e,
     moves |-> mv, matches |-> mt, completed |-> c]

Games ==
    { Game("Ana", "Easy", 1000, 43500, 10, 8, TRUE),
      Game("Bob", "Easy", 2000, 32070, 8, 9, TRUE),
      Game("Ana", "Medium", 1000, 61000, 12, 6, FALSE) }

Players == {"Ana", "Bob"}
NowValues == {90000}
RemoteStates == {"up", "down"}

Status(c) == [kind |-> "status", code |-> c]
NoOutcome == [kind |-> "none"]
RequestException == [kind |-> "exception"]

\* What the probe's GET of the base URL can produce.
ProbeOutcomes(r) ==
    IF r = "up" THEN {Status(200), Status(503)} ELSE {RequestException}

\* What a POST that does not reach the save handler can produce.
SaveFailures(r) ==
    IF r = "up"
    THEN {Status(400), Status(429), Status(503), RequestException}
    ELSE {RequestException}

Max(a, b) == IF a >= b THEN a ELSE b

\* Clock readings are floats: near the value of time.time() only the
\* multiples of ClockGrid are representable, and a result is rounded to
\* the nearest of them.
ClockGrid == 500
Fl(x) == ((x + ClockGrid \div 2) \div ClockGrid) * ClockGrid
Min(a, b) == IF a <= b THEN a ELSE b

VARIABLES
    store,              \* client: rows of the local game_stats table
    nextId,             \* client: next AUTOINCREMENT id of game_stats
    online,             \* client: self.online
    using_cached_data,  \* client: self.using_cached_data
    pc,                 \* client: "idle", the position inside save_game_stats,
                        \*         or "returned" when an operation has ended
    cur,                \* client: locals of the running save_game_stats call
    ret,                \* client: what the last finished operation returned
    remote,             \* environment: is the remote service reachable
    srv,                \* server: rows of the server's game_stats table
    srvNext,            \* server: next AUTOINCREMENT id of the server table
    net,                \* save requests the server has received, and its answers
    acked,              \* history: local ids whose POST was answered 200 or 409
    saved               \* history: the number of game ends recorded so far

vars == <<store, nextId, online, using_cached_data, pc, cur, ret,
          remote, srv, srvNext, net, acked, saved>>

clientVars == <<store, nextId, online, using_cached_data, pc, cur, ret, acked, saved>>
serverVars == <<srv, srvNext>>

(***************************************************************************)
(* Connectivity probe.                                                     *)
(***************************************************************************)
\* check_server_connection that takes any answer of the remote for health.
check_server_connection_AnyStatus(o) == o.kind = "status"

\* self.online after check_server_connection, given the GET's outcome.
check_server_connection(o) == o.kind = "status" /\ o.code = 200

(***************************************************************************)
(* Write path: save_game_stats.                                            *)
(***************************************************************************)
\* LocalRow with the row tagged as the cache rows are.
LocalRow_ServerTagged(g, id) ==
    [id |-> id, player_name |-> g.player_name, difficulty |-> g.difficulty,
     start_time |-> g.start_time, end_time |-> g.end_time,
     duration_seconds |-> g.end_time - g.start_time,
     moves |-> g.moves, matches |-> g.matches,
     errors |-> Max(0, g.moves - g.matches),
     completed |-> g.completed, source |-> "server", server_id |-> 0]

\* The row the INSERT of save_game_stats adds.
LocalRow(g, id) ==
    [id |-> id, player_name |-> g.player_name, difficulty |-> g.difficulty,
     start_time |-> g.start_time, end_time |-> g.end_time,
     duration_seconds |-> g.end_time - g.start_time,
     moves |-> g.moves, matches |-> g.matches,
     errors |-> Max(0, g.moves - g.matches),
     completed |-> g.completed, source |-> "local", server_id |-> 0]

\* The JSON body of the POST.
stats_data(g, local_id) ==
    [client_id |-> CLIENT_ID, player_name |-> g.player_name,
     difficulty |-> g.difficulty, start_time |-> g.start_time,
     end_time |-> g.end_time, duration_seconds |-> g.end_time - g.start_time,
     moves |-> g.moves, matches |-> g.matches,
     errors |-> Max(0, g.moves - g.matches), completed |-> g.completed,
     local_id |-> local_id]

\* AfterAttempt without the break on a non-retriable status.
AfterAttempt_NoBreak(o, attempt) ==
    IF o.kind = "status" /\ o.code = 200 THEN "return"
    ELSE IF o.kind = "status" /\ o.code = 409 THEN "return"
    ELSE IF attempt < max_retries THEN "sleep"
    ELSE "exhausted"

\* What the retry loop does with the outcome of one attempt.
AfterAttempt(o, attempt) ==
    IF o.kind = "status" /\ o.code = 200 THEN "return"
    ELSE IF o.kind = "status" /\ o.code = 409 THEN "return"
    ELSE IF o.kind = "status" /\ o.code < 500 /\ o.code # 429 THEN "break"
    ELSE IF attempt < max_retries THEN "sleep"
    ELSE "exhausted"

\* timeout=10 + (attempt * 5), in seconds.
Timeout(attempt) == 10 + (attempt * 5)

\* base_delay in milliseconds, and the values of random.random(), which
\* lies in [0, 1), in thousandths.
base_delay == 1000
Jitters == {0, 500, 999}

\* delay = base_delay * (2 ** (attempt - 1)) * (0.5 + random.random()), in
\* milliseconds.
Delay(attempt, random) ==
    (base_delay * (2 ^ (attempt - 1)) * (500 + random)) \div 1000

\* The retry loop from the given attempt on: os[k] is the outcome of attempt
\* k and js[k] the value random.random() returns after it.  The result has
\* the timeout of every POST made and the delay of every sleep.
RECURSIVE RetryLoop(_, _, _, _, _)
RetryLoop(attempt, os, js, timeouts, waits) ==
    LET ts == Append(timeouts, Timeout(attempt))
    IN  IF AfterAttempt(os[attempt], attempt) = "sleep"
        THEN RetryLoop(attempt + 1, os, js, ts,
                       Append(waits, Delay(attempt, js[attempt])))
        ELSE [timeouts |-> ts, waits |-> waits, last |-> os[attempt]]

\* An outcome after which no further attempt is due: 200, 409, or another
\* status below 500 other than 429.
Final(o) == o.kind = "status" /\ o.code < 500 /\ o.code # 429

\* attempt: the loop variable.  History of the call: only503, every finished
\* attempt ended in a 503; clean, no finished attempt had a final outcome.
NoCall == [local_id |-> 0, attempt |-> 0, only503 |-> TRUE, clean |-> TRUE]

\* The value save_game_stats returns, with the attempts it made, the outcome
\* of the latest one and the history of the ones before it.
SaveReturn(id, call, o) ==
    [op |-> "save", id |-> id, attempts |-> call.attempt, last |-> o,
     only503 |-> call.only503, clean |-> call.clean]

NoReturn == [op |-> "none"]

\* SaveBegin with the sqlite3.Error swallowed: the id the row would have
\* had is returned.
SaveBegin_SwallowError(g, dbok, o) ==
    /\ pc = "idle"
    /\ nextId <= MaxId
    /\ IF ~dbok
       THEN /\ ret' = SaveReturn(nextId, NoCall, NoOutcome)
            /\ pc' = "returned"
            /\ UNCHANGED <<store, nextId, online, cur>>
       ELSE /\ store' = store \cup {LocalRow(g, nextId)}
            /\ nextId' = nextId + 1
            /\ online' = IF online THEN online ELSE check_server_connection(o)
            /\ IF online'
               THEN /\ pc' = "attempt"
                    /\ cur' = [local_id |-> nextId, attempt |-> 1,
                               only503 |-> TRUE, clean |-> TRUE,
                               data |-> stats_data(g, nextId)]
                    /\ UNCHANGED ret
               ELSE /\ pc' = "returned"
                    /\ cur' = NoCall
                    /\ ret' = SaveReturn(nextId, NoCall, NoOutcome)
    /\ saved' = IF dbok THEN saved + 1 ELSE saved
    /\ UNCHANGED <<using_cached_data, remote, srv, srvNext, net, acked>>

\* save_game_stats up to the first POST: the local insert, then the probe
\* when self.online is false.
SaveBegin(g, dbok, o) ==
    /\ pc = "idle"
    /\ nextId <= MaxId
    /\ IF ~dbok
       THEN \* sqlite3.Error: return -1
            /\ ret' = SaveReturn(-1, NoCall, NoOutcome)
            /\ pc' = "returned"
            /\ UNCHANGED <<store, nextId, online, cur>>
       ELSE /\ store' = store \cup {LocalRow(g, nextId)}
            /\ nextId' = nextId + 1
            /\ online' = IF online THEN online ELSE check_server_connection(o)
            /\ IF online'
               THEN /\ pc' = "attempt"
                    /\ cur' = [local_id |-> nextId, attempt |-> 1,
                               only503 |-> TRUE, clean |-> TRUE,
                               data |-> stats_data(g, nextId)]
                    /\ UNCHANGED ret
               ELSE /\ pc' = "returned"
                    /\ cur' = NoCall
                    /\ ret' = SaveReturn(nextId, NoCall, NoOutcome)
    /\ saved' = IF dbok THEN saved + 1 ELSE saved
    /\ UNCHANGED <<using_cached_data, remote, srv, srvNext, net, acked>>

\* Finish with a loop that does not count its attempts.
Finish_NoCount(o) ==
    /\ acked' = IF o \in {Status(200), Status(409)}
                THEN acked \cup {cur.local_id} ELSE acked
    /\ saved' = saved
    /\ IF AfterAttempt(o, cur.attempt) = "sleep"
       THEN /\ pc' = "attempt"
            /\ cur' = [cur EXCEPT !.only503 = @ /\ o = Status(503),
                                  !.clean = @ /\ ~Final(o)]
            /\ UNCHANGED ret
       ELSE /\ pc' = "returned"
            /\ cur' = NoCall
            /\ ret' = SaveReturn(cur.local_id, cur, o)

\* The client's side of the end of one attempt with outcome o.
Finish(o) ==
    /\ acked' = IF o \in {Status(200), Status(409)}
                THEN acked \cup {cur.local_id} ELSE acked
    /\ saved' = saved
    /\ IF AfterAttempt(o, cur.attempt) = "sleep"
       THEN /\ pc' = "attempt"
            /\ cur' = [cur EXCEPT !.attempt = @ + 1,
                                  !.only503 = @ /\ o = Status(503),
                                  !.clean = @ /\ ~Final(o)]
            /\ UNCHANGED ret
       ELSE /\ pc' = "returned"
            /\ cur' = NoCall
            /\ ret' = SaveReturn(cur.local_id, cur, o)

\* requests.post: the request reaches the server's save handler.
AttemptSend ==
    /\ pc = "attempt"
    /\ remote = "up"
    /\ Cardinality(net) < MaxInFlight
    /\ net' = net \cup {[att |-> cur.attempt, data |-> cur.data,
                         stage |-> "sent", status |-> 0, id |-> 0]}
    /\ pc' = "wait"
    /\ UNCHANGED <<store, nextId, online, using_cached_data, cur, ret,
                   remote, srv, srvNext, acked, saved>>

\* requests.post: the request fails before the save handler runs.
AttemptFail(o) ==
    /\ pc = "attempt"
    /\ o \in SaveFailures(remote)
    /\ Finish(o)
    /\ UNCHANGED <<store, nextId, online, using_cached_data,
                   remote, srv, srvNext, net>>

Mine(r) == r.att = cur.attempt /\ r.data.local_id = cur.local_id

\* requests.post returns the server's answer.
RecvReply ==
    /\ pc = "wait"
    /\ \E r \in net :
        /\ Mine(r)
        /\ r.stage = "replied"
        /\ net' = net \ {r}
        /\ Finish(Status(r.status))
    /\ UNCHANGED <<store, nextId, online, using_cached_data,
                   remote, srv, srvNext>>

\* requests.post raises a timeout: an answer already on its way is lost, a
\* request the handler has not finished stays with the server, and no
\* client waits for it any more (att = 0).
AttemptTimeout ==
    /\ pc = "wait"
    /\ net' = {[r EXCEPT !.att = 0] :
                  r \in {x \in net : ~(Mine(x) /\ x.stage = "replied")}}
    /\ Finish(RequestException)
    /\ UNCHANGED <<store, nextId, online, using_cached_data,
                   remote, srv, srvNext>>

(***************************************************************************)
(* Server: save_stats.                                                     *)
(***************************************************************************)
\* Existing with the client id of the body replaced by the default 'unknown'.
Existing_UnknownClient(rows, data) ==
    {x \in rows : /\ x.player_name = data.player_name
                  /\ x.start_time = data.start_time
                  /\ x.end_time = data.end_time
                  /\ x.client_id = "unknown"
                  /\ x.local_id = data.local_id}

\* The duplicate SELECT of save_stats for a body that carries local_id.
Existing(rows, data) ==
    {x \in rows : /\ x.player_name = data.player_name
                  /\ x.start_time = data.start_time
                  /\ x.end_time = data.end_time
                  /\ x.client_id = data.client_id
                  /\ x.local_id = data.local_id}

MinId(rows) == CHOOSE i \in {x.id : x \in rows} : \A x \in rows : i <= x.id

ServerRow(data, id) ==
    [id |-> id, player_name |-> data.player_name, difficulty |-> data.difficulty,
     start_time |-> data.start_time, end_time |-> data.end_time,
     duration_seconds |-> data.duration_seconds, moves |-> data.moves,
     matches |-> data.matches, errors |-> data.errors,
     completed |-> data.completed, client_id |-> data.client_id,
     local_id |-> data.local_id]

\* The answer of a finished handler: kept for the client that still waits
\* for it, dropped when that client has given up on the attempt.
Answer(r, status, id) ==
    IF pc = "wait" /\ Mine(r)
    THEN (net \ {r}) \cup {[r EXCEPT !.stage = "replied", !.status = status, !.id = id]}
    ELSE net \ {r}

\* save_stats run from its first line to its answer: 409 with the id of the
\* stored row for a duplicate, else the INSERT and 200 with the new id.
save_stats ==
    \E r \in net :
        /\ r.stage = "sent"
        /\ IF Existing(srv, r.data) # {}
           THEN /\ net' = Answer(r, 409, MinId(Existing(srv, r.data)))
                /\ UNCHANGED <<srv, srvNext>>
           ELSE /\ srv' = srv \cup {ServerRow(r.data, srvNext)}
                /\ srvNext' = srvNext + 1
                /\ net' = Answer(r, 200, srvNext)
        /\ UNCHANGED <<clientVars, remote>>

\* The same handler under Flask's threaded server, where the handlers of two
\* requests interleave: save_stats up to the duplicate check.
SrvCheck ==
    \E r \in net :
        /\ r.stage = "sent"
        /\ IF Existing(srv, r.data) # {}
           THEN net' = Answer(r, 409, MinId(Existing(srv, r.data)))
           ELSE net' = (net \ {r}) \cup {[r EXCEPT !.stage = "checked"]}
        /\ UNCHANGED <<clientVars, remote, srv, srvNext>>

\* save_stats from the INSERT on: 200 with the new id.
SrvInsert ==
    \E r \in net :
        /\ r.stage = "checked"
        /\ srv' = srv \cup {ServerRow(r.data, srvNext)}
        /\ srvNext' = srvNext + 1
        /\ net' = Answer(r, 200, srvNext)
        /\ UNCHANGED <<clientVars, remote>>

(***************************************************************************)
(* Queries of the two stores.                                              *)
(***************************************************************************)
None == ""

\* The order of a SELECT without ORDER BY.
Before_Rowid(a, b) == a.id < b.id

\* ORDER BY duration_seconds ASC, errors ASC; rows that tie come in id order.
Before(a, b) ==
    \/ a.duration_seconds < b.duration_seconds
    \/ a.duration_seconds = b.duration_seconds /\ a.errors < b.errors
    \/ a.duration_seconds = b.duration_seconds /\ a.errors = b.errors /\ a.id < b.id

RECURSIVE OrderBy(_)
OrderBy(S) ==
    IF S = {} THEN <<>>
    ELSE LET m == CHOOSE x \in S : \A y \in S \ {x} : Before(x, y)
         IN  <<m>> \o OrderBy(S \ {m})

\* Rows in rowid order: a SELECT without ORDER BY.
RECURSIVE RowidOrder(_)
RowidOrder(S) ==
    IF S = {} THEN <<>>
    ELSE LET m == CHOOSE x \in S : \A y \in S : x.id <= y.id
         IN  <<m>> \o RowidOrder(S \ {m})

Limit(seq, n) == SubSeq(seq, 1, Min(n, Len(seq)))

\* LocalLeaderboard without the source filter, as in the base class.
LocalLeaderboard_AnySource(rows, difficulty, limit) ==
    LET hit == {x \in rows : /\ x.completed
                             /\ (difficulty = None \/ x.difficulty = difficulty)}
        top == Limit(OrderBy(hit), limit)
    IN  [i \in 1..Len(top) |->
            [id |-> top[i].id, player_name |-> top[i].player_name,
             difficulty |-> top[i].difficulty, start_time |-> top[i].start_time,
             end_time |-> top[i].end_time,
             duration_seconds |-> top[i].duration_seconds,
             errors |-> top[i].errors, source |-> top[i].source]]

\* The client's fallback SELECT: completed rows of the difficulty with
\* source = 'local', best first, at most limit of them.
LocalLeaderboard(rows, difficulty, limit) ==
    LET hit == {x \in rows : /\ x.completed
                             /\ (difficulty = None \/ x.difficulty = difficulty)
                             /\ x.source = "local"}
        top == Limit(OrderBy(hit), limit)
    IN  [i \in 1..Len(top) |->
            [id |-> top[i].id, player_name |-> top[i].player_name,
             difficulty |-> top[i].difficulty, start_time |-> top[i].start_time,
             end_time |-> top[i].end_time,
             duration_seconds |-> top[i].duration_seconds,
             errors |-> top[i].errors, source |-> top[i].source]]

Warning(text, code) == [text |-> text, code |-> code]
WarnOffline == Warning("LOCAL DATA ONLY - Not synced with server", 0)
WarnServerError(code) == Warning("LOCAL DATA ONLY - Server error", code)
WarnConnection == Warning("LOCAL DATA ONLY - Connection error", 0)

\* item["cached"] = True; item["warning"] = ...
Tag(list, warning) ==
    [i \in 1..Len(list) |-> list[i] @@ [cached |-> TRUE, warning |-> warning]]

\* ServerLeaderboard without the completed = 1 of its WHERE clause.
ServerLeaderboard_AnyCompleted(rows, difficulty, limit) ==
    LET hit == {x \in rows : difficulty = "all" \/ x.difficulty = difficulty}
        top == Limit(OrderBy(hit), limit)
    IN  [i \in 1..Len(top) |->
            [id |-> top[i].id, player_name |-> top[i].player_name,
             difficulty |-> top[i].difficulty,
             duration_seconds |-> top[i].duration_seconds,
             errors |-> top[i].errors,
             formatted_time |-> <<top[i].duration_seconds \div 60000,
                                  top[i].duration_seconds % 60000>>]]

\* The server's leaderboard handler.
ServerLeaderboard(rows, difficulty, limit) ==
    LET hit == {x \in rows : /\ x.completed
                             /\ (difficulty = "all" \/ x.difficulty = difficulty)}
        top == Limit(OrderBy(hit), limit)
    IN  [i \in 1..Len(top) |->
            [id |-> top[i].id, player_name |-> top[i].player_name,
             difficulty |-> top[i].difficulty,
             duration_seconds |-> top[i].duration_seconds,
             errors |-> top[i].errors,
             formatted_time |-> <<top[i].duration_seconds \div 60000,
                                  top[i].duration_seconds % 60000>>]]

\* An HTTP answer to a GET: json tells whether its body parses as JSON.
Reply(code, json) == [kind |-> "status", code |-> code, json |-> json]

\* The answer together with the list its JSON document carries.
WithBody(fo, body) == fo @@ [body |-> body]

FetchOutcomes(r) ==
    IF r = "up"
    THEN {Reply(200, TRUE), Reply(200, FALSE), Reply(500, FALSE),
          RequestException}
    ELSE {RequestException}

(***************************************************************************)
(* Read path: leaderboards.                                                *)
(***************************************************************************)
\* get_remote_leaderboard with the local rows appended to the server's list.
get_remote_leaderboard_Merged(difficulty, limit, po, fo) ==
    LET local == LocalLeaderboard(store, difficulty, limit)
        param == IF difficulty = None THEN "all" ELSE difficulty
    IN  IF ~check_server_connection(po)
        THEN [rows |-> Tag(local, WarnOffline), online |-> FALSE,
              using_cached_data |-> TRUE, fetches |-> <<>>]
        ELSE IF fo.kind = "status" /\ fo.code = 200 /\ fo.json
        THEN [rows |-> ServerLeaderboard(srv, param, limit) \o local,
              online |-> TRUE, using_cached_data |-> FALSE,
              fetches |-> <<WithBody(fo, ServerLeaderboard(srv, param, limit))>>]
        ELSE IF fo.kind = "status" /\ fo.code # 200
        THEN [rows |-> Tag(local, WarnServerError(fo.code)), online |-> TRUE,
              using_cached_data |-> TRUE, fetches |-> <<fo>>]
        ELSE [rows |-> Tag(local, WarnConnection), online |-> TRUE,
              using_cached_data |-> TRUE, fetches |-> <<fo>>]

\* get_remote_leaderboard with a second GET after a failed one.
get_remote_leaderboard_Refetch(difficulty, limit, po, fo) ==
    LET local == LocalLeaderboard(store, difficulty, limit)
        param == IF difficulty = None THEN "all" ELSE difficulty
    IN  IF ~check_server_connection(po)
        THEN [rows |-> Tag(local, WarnOffline), online |-> FALSE,
              using_cached_data |-> TRUE, fetches |-> <<>>]
        ELSE IF fo.kind = "status" /\ fo.code = 200 /\ fo.json
        THEN [rows |-> ServerLeaderboard(srv, param, limit), online |-> TRUE,
              using_cached_data |-> FALSE,
              fetches |-> <<WithBody(fo, ServerLeaderboard(srv, param, limit))>>]
        ELSE IF fo.kind = "status" /\ fo.code # 200
        THEN [rows |-> Tag(local, WarnServerError(fo.code)), online |-> TRUE,
              using_cached_data |-> TRUE, fetches |-> <<fo, fo>>]
        ELSE [rows |-> Tag(local, WarnConnection), online |-> TRUE,
              using_cached_data |-> TRUE, fetches |-> <<fo, fo>>]

\* get_remote_leaderboard, given the outcome po of its probe and fo of its
\* GET: the rows returned, the two flags afterwards, the GETs made.
get_remote_leaderboard(difficulty, limit, po, fo) ==
    LET local == LocalLeaderboard(store, difficulty, limit)
        param == IF difficulty = None THEN "all" ELSE difficulty
    IN  IF ~check_server_connection(po)
        THEN [rows |-> Tag(local, WarnOffline), online |-> FALSE,
              using_cached_data |-> TRUE, fetches |-> <<>>]
        ELSE IF fo.kind = "status" /\ fo.code = 200 /\ fo.json
        THEN [rows |-> ServerLeaderboard(srv, param, limit), online |-> TRUE,
              using_cached_data |-> FALSE,
              fetches |-> <<WithBody(fo, ServerLeaderboard(srv, param, limit))>>]
        ELSE IF fo.kind = "status" /\ fo.code # 200
        THEN [rows |-> Tag(local, WarnServerError(fo.code)), online |-> TRUE,
              using_cached_data |-> TRUE, fetches |-> <<fo>>]
        ELSE [rows |-> Tag(local, WarnConnection), online |-> TRUE,
              using_cached_data |-> TRUE, fetches |-> <<fo>>]

\* get_leaderboard: po1 is the outcome of its own probe (made when
\* self.online is false), po2 and fo those of get_remote_leaderboard.
get_leaderboard(difficulty, limit, po1, po2, fo) ==
    IF online \/ check_server_connection(po1)
    THEN LET r == get_remote_leaderboard(difficulty, limit, po2, fo)
         IN  [rows |-> r.rows, online |-> r.online,
              using_cached_data |-> r.using_cached_data,
              probes |-> (IF online THEN <<>> ELSE <<po1>>) \o <<po2>>,
              fetches |-> r.fetches]
    ELSE [rows |-> LocalLeaderboard(store, difficulty, limit), online |-> FALSE,
          using_cached_data |-> using_cached_data,
          probes |-> <<po1>>, fetches |-> <<>>]

DifficultyArgs == {"Easy", None}

GetLeaderboard(difficulty, limit, po1, po2, fo) ==
    /\ pc = "idle"
    /\ LET r == get_leaderboard(difficulty, limit, po1, po2, fo)
       IN  /\ online' = r.online
           /\ using_cached_data' = r.using_cached_data
           /\ ret' = [op |-> "leaderboard", difficulty |-> difficulty,
                      limit |-> limit, probes |-> r.probes,
                      fetches |-> r.fetches, rows |-> r.rows]
    /\ pc' = "returned"
    /\ UNCHANGED <<store, nextId, cur, remote, srv, srvNext, net, acked, saved>>

\* The outcomes the requests of one get_leaderboard call can have: its own
\* probe is made when self.online is false, the probe of
\* get_remote_leaderboard when it is called, the GET when that probe passed.
OwnProbes == IF online THEN {NoOutcome} ELSE ProbeOutcomes(remote)
InnerProbes(po1) ==
    IF online \/ check_server_connection(po1) THEN ProbeOutcomes(remote)
    ELSE {NoOutcome}
FetchesAfter(po) ==
    IF check_server_connection(po) THEN FetchOutcomes(remote) ELSE {NoOutcome}

(***************************************************************************)
(* Dedup-merge.                                                            *)
(***************************************************************************)
\* f"{float(duration):.2f}": the duration in hundredths of a second.
Round2(ms) == (ms + 5) \div 10

\* The key _deduplicate_stats files a stat under.
StatKey(stat) ==
    IF "id" \in DOMAIN stat THEN <<"id", stat.id>>
    ELSE <<"sig", stat.player_name, stat.difficulty,
           Round2(stat.duration_seconds),
           IF "errors" \in DOMAIN stat THEN stat.errors ELSE 0>>

\* stat.get('source')
SourceOf(stat) == IF "source" \in DOMAIN stat THEN stat.source ELSE "None"

\* DedupLoop that never replaces the record filed first.
RECURSIVE DedupLoop_KeepFirst(_, _)
DedupLoop_KeepFirst(left, kept) ==
    IF left = <<>> THEN kept
    ELSE LET stat == Head(left)
             hit == {i \in 1..Len(kept) : StatKey(kept[i]) = StatKey(stat)}
         IN  IF hit = {} THEN DedupLoop_KeepFirst(Tail(left), Append(kept, stat))
             ELSE DedupLoop_KeepFirst(Tail(left), kept)

\* DedupLoop that files a replacing record as a new entry, at the end.
RECURSIVE DedupLoop_MoveToEnd(_, _)
DedupLoop_MoveToEnd(left, kept) ==
    IF left = <<>> THEN kept
    ELSE LET stat == Head(left)
             hit == {i \in 1..Len(kept) : StatKey(kept[i]) = StatKey(stat)}
         IN  IF hit = {} THEN DedupLoop_MoveToEnd(Tail(left), Append(kept, stat))
             ELSE LET i == CHOOSE j \in hit : TRUE
                  IN  IF SourceOf(stat) = "server" /\ SourceOf(kept[i]) = "local"
                      THEN DedupLoop_MoveToEnd(Tail(left),
                              Append(SubSeq(kept, 1, i - 1)
                                       \o SubSeq(kept, i + 1, Len(kept)), stat))
                      ELSE DedupLoop_MoveToEnd(Tail(left), kept)

\* The loop of _deduplicate_stats over what is left of the list; kept is
\* unique_stats.values(), in the order the keys were first filed.
RECURSIVE DedupLoop(_, _)
DedupLoop(left, kept) ==
    IF left = <<>> THEN kept
    ELSE LET stat == Head(left)
             hit == {i \in 1..Len(kept) : StatKey(kept[i]) = StatKey(stat)}
         IN  IF hit = {} THEN DedupLoop(Tail(left), Append(kept, stat))
             ELSE LET i == CHOOSE j \in hit : TRUE
                  IN  IF SourceOf(stat) = "server" /\ SourceOf(kept[i]) = "local"
                      THEN DedupLoop(Tail(left), [kept EXCEPT ![i] = stat])
                      ELSE DedupLoop(Tail(left), kept)

\* _deduplicate_stats returning the values last key first.
_deduplicate_stats_Reversed(stats_list) ==
    LET out == DedupLoop(stats_list, <<>>)
    IN  [i \in 1..Len(out) |-> out[Len(out) + 1 - i]]

_deduplicate_stats(stats_list) == DedupLoop(stats_list, <<>>)

\* Stat dicts as the callers build them: from a local row (id is the rowid),
\* from a server document (id is the server's), and without an id.
Stat(id, p, d, t, e, src) ==
    [id |-> id, player_name |-> p, difficulty |-> d, duration_seconds |-> t,
     errors |-> e, source |-> src]
StatNoId(p, d, t, e, src) ==
    [player_name |-> p, difficulty |-> d, duration_seconds |-> t,
     errors |-> e, source |-> src]

Stats ==
    { Stat(1, "Ana", "Easy", 42500, 2, "local"),
      Stat(1, "Bob", "Easy", 30070, 0, "server"),
      Stat(2, "Ana", "Easy", 42500, 2, "server"),
      Stat(3, "Ana", "Easy", 42500, 2, "local"),
      StatNoId("Ana", "Easy", 42500, 2, "local"),
      StatNoId("Ana", "Easy", 42504, 2, "server") }

\* The lists of at most n stats.
StatLists(n) == UNION {[1..k -> Stats] : k \in 0..n}

\* A direct call of _deduplicate_stats.
Dedup(stats_list) ==
    /\ pc = "idle"
    /\ ret' = [op |-> "dedup", input |-> stats_list,
               output |-> _deduplicate_stats(stats_list)]
    /\ pc' = "returned"
    /\ UNCHANGED <<store, nextId, online, using_cached_data, cur, remote,
                   srv, srvNext, net, acked, saved>>

(***************************************************************************)
(* Read path: player statistics.                                           *)
(***************************************************************************)
Message(text, code) == [text |-> text, code |-> code]
NoError == Message("None", 0)

\* The player's source = 'local' rows as stat dicts, in rowid order.
LocalStats(rows, player_name) ==
    LET top == RowidOrder({x \in rows : x.player_name = player_name
                                        /\ x.source = "local"})
    IN  [i \in 1..Len(top) |->
            [id |-> top[i].id, player_name |-> top[i].player_name,
             difficulty |-> top[i].difficulty, start_time |-> top[i].start_time,
             end_time |-> top[i].end_time,
             duration_seconds |-> top[i].duration_seconds,
             moves |-> top[i].moves, matches |-> top[i].matches,
             errors |-> top[i].errors, completed |-> top[i].completed,
             source |-> top[i].source, local |-> TRUE]]

\* The dict _get_local_only_stats returns; it sets using_cached_data.
_get_local_only_stats(player_name, error_message) ==
    LET local == LocalStats(store, player_name)
        stats == [i \in 1..Len(local) |-> local[i] @@ [cached |-> TRUE]]
    IN  [player |-> player_name, stats |-> _deduplicate_stats(stats),
         local_stats |-> <<>>, has_local_data |-> TRUE, using_cached |-> TRUE,
         error |-> error_message]

\* Newest first: ORDER BY start_time DESC.
RECURSIVE NewestFirst(_)
NewestFirst(S) ==
    IF S = {} THEN <<>>
    ELSE LET m == CHOOSE x \in S : \A y \in S \ {x} :
                     \/ x.start_time > y.start_time
                     \/ x.start_time = y.start_time /\ x.id < y.id
         IN  <<m>> \o NewestFirst(S \ {m})

\* The list a remote that serves the player request puts under "stats".
PlayerDocument(rows, name) ==
    LET top == NewestFirst({x \in rows : x.player_name = name})
    IN  [i \in 1..Len(top) |->
            [id |-> top[i].id, player_name |-> top[i].player_name,
             difficulty |-> top[i].difficulty, start_time |-> top[i].start_time,
             end_time |-> top[i].end_time,
             duration_seconds |-> top[i].duration_seconds,
             moves |-> top[i].moves, matches |-> top[i].matches,
             errors |-> top[i].errors, completed |-> top[i].completed]]

\* What the GET of the player URL can produce; 404 is also the answer of a
\* server that has no route for the URL.
PlayerOutcomes(r) ==
    IF r = "up"
    THEN {Reply(200, TRUE), Reply(200, FALSE), Reply(404, FALSE),
          RequestException}
    ELSE {RequestException}

\* get_player_remote_stats, given the outcome fo of its GET: the dict
\* returned, using_cached_data afterwards, the GETs made.
get_player_remote_stats(player_name, fo) ==
    IF ~online
    THEN [result |-> _get_local_only_stats(player_name,
                                           Message("Server unavailable", 0)),
          using_cached_data |-> TRUE, fetches |-> <<>>]
    ELSE IF fo.kind = "exception"
    THEN [result |-> _get_local_only_stats(player_name,
                                           Message("Connection error", 0)),
          using_cached_data |-> TRUE, fetches |-> <<fo>>]
    ELSE IF fo.code = 200 /\ ~fo.json
    THEN [result |-> _get_local_only_stats(player_name,
                                           Message("Invalid server response", 0)),
          using_cached_data |-> TRUE, fetches |-> <<fo>>]
    ELSE IF fo.code = 200
    THEN LET doc == PlayerDocument(srv, player_name)
             server_stats == [i \in 1..Len(doc) |->
                                 doc[i] @@ [server |-> TRUE, source |-> "server"]]
             local_stats == LocalStats(store, player_name)
         IN  [result |-> [player |-> player_name,
                          stats |-> _deduplicate_stats(server_stats),
                          local_stats |-> local_stats,
                          has_local_data |-> Len(local_stats) > 0,
                          using_cached |-> FALSE, error |-> NoError],
              using_cached_data |-> using_cached_data,
              fetches |-> <<WithBody(fo, doc)>>]
    ELSE [result |-> _get_local_only_stats(player_name,
                                           Message("Server error", fo.code)),
          using_cached_data |-> TRUE, fetches |-> <<fo>>]

GetPlayerStats(player_name, fo) ==
    /\ pc = "idle"
    /\ LET r == get_player_remote_stats(player_name, fo)
       IN  /\ using_cached_data' = r.using_cached_data
           /\ ret' = [op |-> "player", player |-> player_name,
                      reachable |-> (remote = "up"), fetches |-> r.fetches,
                      result |-> r.result]
    /\ pc' = "returned"
    /\ UNCHANGED <<store, nextId, online, cur, remote, srv, srvNext, net, acked, saved>>

PlayerFetches == IF online THEN PlayerOutcomes(remote) ELSE {NoOutcome}

\* The path of the URL get_player_remote_stats requests, without the name,
\* and the paths the server of this repository has a route for.
ClientPlayerPath == <<"api", "player">>
ServerRoutes ==
    {<<>>, <<"api", "stats", "save">>, <<"api", "stats", "leaderboard">>,
     <<"api", "stats", "player">>, <<"api", "stats", "count">>}

\* Flask answers a path without a route with 404 and an HTML body.
RouteStatus(path) == IF path \in ServerRoutes THEN 200 ELSE 404

\* What the GET of the player URL produces when the remote is the server of
\* this repository and is healthy.
OwnServerPlayerOutcomes(r) ==
    IF r = "up"
    THEN {Reply(RouteStatus(ClientPlayerPath),
                RouteStatus(ClientPlayerPath) = 200)}
    ELSE {RequestException}

OwnServerPlayerFetches ==
    IF online THEN OwnServerPlayerOutcomes(remote) ELSE {NoOutcome}

\* The player's rows of either source as stat dicts, newest first.
PlayerRows(rows, player_name) ==
    LET top == NewestFirst({x \in rows : x.player_name = player_name})
    IN  [i \in 1..Len(top) |->
            [id |-> top[i].id, player_name |-> top[i].player_name,
             difficulty |-> top[i].difficulty, start_time |-> top[i].start_time,
             end_time |-> top[i].end_time,
             duration_seconds |-> top[i].duration_seconds,
             moves |-> top[i].moves, matches |-> top[i].matches,
             errors |-> top[i].errors, completed |-> top[i].completed,
             source |-> top[i].source]]

\* get_player_stats: the merged list of the player's local and cached rows.
get_player_stats(player_name) ==
    _deduplicate_stats(PlayerRows(store, player_name))

GetMergedStats(player_name) ==
    /\ pc = "idle"
    /\ ret' = [op |-> "merged", player |-> player_name,
               rows |-> get_player_stats(player_name)]
    /\ pc' = "returned"
    /\ UNCHANGED <<store, nextId, online, using_cached_data, cur, remote,
                   srv, srvNext, net, acked, saved>>

(***************************************************************************)
(* Full refresh: _refresh_server_data and _update_local_cache_from_server. *)
(***************************************************************************)
\* server_id_map: one item per id, in the order the ids first occur, the
\* last item of an id winning.
RECURSIVE ServerIdMap(_, _)
ServerIdMap(left, kept) ==
    IF left = <<>> THEN kept
    ELSE LET item == Head(left)
             hit == {i \in 1..Len(kept) : kept[i].id = item.id}
         IN  IF hit = {} THEN ServerIdMap(Tail(left), Append(kept, item))
             ELSE ServerIdMap(Tail(left),
                              [kept EXCEPT ![CHOOSE j \in hit : TRUE] = item])

\* The row inserted for one leaderboard item.
ServerSourcedRow(item, id, now) ==
    [id |-> id, player_name |-> item.player_name, difficulty |-> item.difficulty,
     start_time |-> Fl(now - item.duration_seconds), end_time |-> now,
     duration_seconds |-> item.duration_seconds,
     moves |-> DefaultMatches + item.errors, matches |-> DefaultMatches,
     errors |-> item.errors, completed |-> TRUE, source |-> "server",
     server_id |-> item.id]

\* The INSERT loop: rows and next are the table and its next id so far.
RECURSIVE InsertItems(_, _, _, _, _)
InsertItems(items, rows, next, difficulty, now) ==
    IF items = <<>> THEN [store |-> rows, nextId |-> next]
    ELSE IF Head(items).difficulty # difficulty
    THEN InsertItems(Tail(items), rows, next, difficulty, now)
    ELSE InsertItems(Tail(items),
                     rows \cup {ServerSourcedRow(Head(items), next, now)},
                     next + 1, difficulty, now)

\* _update_local_cache_from_server without its rollback: a replace that
\* raises leaves the table as the DELETE made it.
_update_local_cache_from_server_NoRollback(rows, next, server_data, difficulty, now, raises) ==
    IF server_data = <<>> THEN [store |-> rows, nextId |-> next]
    ELSE IF raises
    THEN [store |-> {x \in rows : ~(x.source = "server"
                                    /\ x.difficulty = difficulty)},
          nextId |-> next]
    ELSE InsertItems(ServerIdMap(server_data, <<>>),
                     {x \in rows : ~(x.source = "server"
                                     /\ x.difficulty = difficulty)},
                     next, difficulty, now)

\* _update_local_cache_from_server that retags the rows of the difficulty
\* in place instead of deleting and inserting.
_update_local_cache_from_server_InPlace(rows, next, server_data, difficulty, now, raises) ==
    IF server_data = <<>> THEN [store |-> rows, nextId |-> next]
    ELSE IF raises THEN [store |-> rows, nextId |-> next]
    ELSE [store |-> {IF x.difficulty = difficulty
                     THEN [x EXCEPT !.source = "server"] ELSE x : x \in rows},
          nextId |-> next]

\* _update_local_cache_from_server with a DELETE that has no source filter.
_update_local_cache_from_server_AnySource(rows, next, server_data, difficulty, now, raises) ==
    IF server_data = <<>> THEN [store |-> rows, nextId |-> next]
    ELSE IF raises THEN [store |-> rows, nextId |-> next]
    ELSE InsertItems(ServerIdMap(server_data, <<>>),
                     {x \in rows : x.difficulty # difficulty},
                     next, difficulty, now)

\* _update_local_cache_from_server for one difficulty: the committed table.
\* With raises, an exception is raised after the DELETE, which the handler
\* answers with a rollback and swallows.
_update_local_cache_from_server(rows, next, server_data, difficulty, now, raises) ==
    IF server_data = <<>> THEN [store |-> rows, nextId |-> next]
    ELSE IF raises THEN [store |-> rows, nextId |-> next]
    ELSE InsertItems(ServerIdMap(server_data, <<>>),
                     {x \in rows : ~(x.source = "server"
                                     /\ x.difficulty = difficulty)},
                     next, difficulty, now)

\* RefreshLoop with the cached rows of a difficulty deleted when its GET is
\* answered with an error status.
RECURSIVE RefreshLoop_ClearOnError(_, _, _, _, _, _)
RefreshLoop_ClearOnError(i, rows, next, fs, now, failing) ==
    IF i > Len(Difficulties)
    THEN [store |-> rows, nextId |-> next, result |-> TRUE, fetches |-> i - 1]
    ELSE IF fs[i].kind = "exception" \/ (fs[i].code = 200 /\ ~fs[i].json)
    THEN [store |-> rows, nextId |-> next, result |-> FALSE, fetches |-> i]
    ELSE IF fs[i].code = 200
    THEN LET u == _update_local_cache_from_server(rows, next,
                     ServerLeaderboard(srv, Difficulties[i], RefreshLimit),
                     Difficulties[i], now, i \in failing)
         IN  RefreshLoop_ClearOnError(i + 1, u.store, u.nextId, fs, now, failing)
    ELSE RefreshLoop_ClearOnError(i + 1,
            {x \in rows : ~(x.source = "server"
                            /\ x.difficulty = Difficulties[i])},
            next, fs, now, failing)

\* The loop of _refresh_server_data from the i-th difficulty on; fs are the
\* outcomes of the three GETs, failing the difficulties whose replace raises.
\* An exception of the GET ends the loop.
RECURSIVE RefreshLoop(_, _, _, _, _, _)
RefreshLoop(i, rows, next, fs, now, failing) ==
    IF i > Len(Difficulties)
    THEN [store |-> rows, nextId |-> next, result |-> TRUE, fetches |-> i - 1]
    ELSE IF fs[i].kind = "exception" \/ (fs[i].code = 200 /\ ~fs[i].json)
    THEN [store |-> rows, nextId |-> next, result |-> FALSE, fetches |-> i]
    ELSE IF fs[i].code = 200
    THEN LET u == _update_local_cache_from_server(rows, next,
                     ServerLeaderboard(srv, Difficulties[i], RefreshLimit),
                     Difficulties[i], now, i \in failing)
         IN  RefreshLoop(i + 1, u.store, u.nextId, fs, now, failing)
    ELSE RefreshLoop(i + 1, rows, next, fs, now, failing)

\* _refresh_server_data, given the outcome po of its probe (made when
\* self.online is false) and fs of its GETs.
_refresh_server_data(po, fs, now, failing) ==
    IF ~online /\ ~check_server_connection(po)
    THEN [store |-> store, nextId |-> nextId, result |-> FALSE, fetches |-> 0,
          online |-> FALSE]
    ELSE RefreshLoop(1, store, nextId, fs, now, failing) @@ [online |-> TRUE]

\* A call of _refresh_server_data that leaves the next id of the table
\* within the limit.
RefreshWithin(limit, po, fs, now, failing) ==
    /\ pc = "idle"
    /\ LET r == _refresh_server_data(po, fs, now, failing)
       IN  /\ r.nextId <= limit
           /\ store' = r.store
           /\ nextId' = r.nextId
           /\ online' = r.online
           /\ ret' = [op |-> "refresh", result |-> r.result,
                      outcomes |-> SubSeq(fs, 1, r.fetches),
                      failed |-> failing]
    /\ pc' = "returned"
    /\ UNCHANGED <<using_cached_data, cur, remote, srv, srvNext, net, acked, saved>>

RefreshAll(po, fs, now, failing) ==
    RefreshWithin(MaxId + 1, po, fs, now, failing)

\* The outcomes of the GETs of one refresh; after a GET that ends the loop
\* no further GET is made, and the outcome is repeated to fill the list.
RefreshFetches(po) ==
    IF online \/ check_server_connection(po)
    THEN {fs \in [1..Len(Difficulties) -> FetchOutcomes(remote)] :
            \A j \in 2..Len(Difficulties) :
               (fs[j-1].kind = "exception" \/ (fs[j-1].code = 200 /\ ~fs[j-1].json))
                  => fs[j] = fs[j-1]}
    ELSE {<<>>}

\* The sets of difficulties whose replace can raise: those that get as far
\* as the DELETE.
Replaced(fs) ==
    {i \in 1..Len(fs) :
        /\ \A j \in 1..i : fs[j].kind = "status" /\ (fs[j].code = 200 => fs[j].json)
        /\ fs[i].code = 200
        /\ ServerLeaderboard(srv, Difficulties[i], RefreshLimit) # <<>>}

(***************************************************************************)
(* Maintenance: force_sync_all, detect_server_reset,                       *)
(* prompt_reset_local_cache, clean_database, background_sync, __init__.    *)
(***************************************************************************)
\* force_sync_all: a probe when self.online is false, and the flag.
force_sync_all(po) ==
    /\ pc = "idle"
    /\ online' = IF online THEN online ELSE check_server_connection(po)
    /\ ret' = [op |-> "force_sync", probe |-> po, result |-> online']
    /\ pc' = "returned"
    /\ UNCHANGED <<store, nextId, using_cached_data, cur, remote, srv,
                   srvNext, net, acked, saved>>

\* What the GET of /api/stats/count can produce: the server's answer with
\* its count, a JSON object without "count", a body that is not a JSON
\* object, an error status, an exception.
CountReply(n) ==
    [kind |-> "status", code |-> 200, json |-> TRUE, has_count |-> TRUE,
     count |-> n]
NoCountReply ==
    [kind |-> "status", code |-> 200, json |-> TRUE, has_count |-> FALSE,
     count |-> 0]
CountFailures == {Reply(200, FALSE), Reply(500, FALSE), RequestException}

CountOutcomes(r) ==
    IF r = "up"
    THEN {CountReply(Cardinality(srv)), NoCountReply} \cup CountFailures
    ELSE {RequestException}

\* detect_server_reset, given SELECT COUNT(*) of the local table and the
\* outcome of the GET; server_count < local_count * 0.5 on integers.
detect_server_reset(local_count, o) ==
    IF local_count = 0 THEN FALSE
    ELSE IF o.kind = "exception" THEN FALSE
    ELSE IF o.code # 200 THEN FALSE
    ELSE IF ~o.json THEN FALSE
    ELSE LET server_count == IF o.has_count THEN o.count ELSE 0
         IN  2 * server_count < local_count /\ server_count < 10

\* A call of detect_server_reset with the counts given: the result only.
DetectCounts(local_count, o) ==
    /\ pc = "idle"
    /\ ret' = [op |-> "detect", local_count |-> local_count, outcome |-> o,
               result |-> detect_server_reset(local_count, o)]
    /\ pc' = "returned"
    /\ UNCHANGED <<store, nextId, online, using_cached_data, cur, remote,
                   srv, srvNext, net, acked, saved>>

\* detect_server_reset on the engine's table; no GET when the table is empty.
DetectServerReset(o) ==
    /\ o \in (IF store = {} THEN {NoOutcome} ELSE CountOutcomes(remote))
    /\ DetectCounts(Cardinality(store), o)

\* prompt_reset_local_cache with a DELETE of the cached server rows only.
prompt_reset_local_cache_ServerOnly(dbok) ==
    /\ pc = "idle"
    /\ store' = IF dbok THEN {x \in store : x.source # "server"} ELSE store
    /\ ret' = [op |-> "reset", result |-> dbok]
    /\ pc' = "returned"
    /\ UNCHANGED <<nextId, online, using_cached_data, cur, remote, srv,
                   srvNext, net, acked, saved>>

\* prompt_reset_local_cache: DELETE FROM game_stats and True, or False when
\* the statement raises.
prompt_reset_local_cache(dbok) ==
    /\ pc = "idle"
    /\ store' = IF dbok THEN {} ELSE store
    /\ ret' = [op |-> "reset", result |-> dbok]
    /\ pc' = "returned"
    /\ UNCHANGED <<nextId, online, using_cached_data, cur, remote, srv,
                   srvNext, net, acked, saved>>

\* The key clean_database gives a row: the server id when the row has one,
\* else player, difficulty, duration to the hundredth, errors, completed.
CleanKey(x) ==
    IF x.server_id # 0 THEN <<"server", x.server_id>>
    ELSE <<x.player_name, x.difficulty, Round2(x.duration_seconds), x.errors,
           x.completed>>

\* clean_database: the rows are read in id order and a row whose key an
\* earlier row has is deleted.
clean_database(rows) ==
    {x \in rows : ~\E y \in rows : y.id < x.id /\ CleanKey(y) = CleanKey(x)}

\* The rows of sync_status: the table is created by initialize_sync_table
\* and no statement of the program inserts into it.
sync_status_AllLocal ==
    {[game_stats_id |-> x.id, synced |-> FALSE] :
        x \in {y \in store : y.source = "local"}}

sync_status == {}

\* The body sync_game_stat posts for a row: no local_id.
sync_data(row) ==
    [client_id |-> CLIENT_ID, player_name |-> row.player_name,
     difficulty |-> row.difficulty, start_time |-> row.start_time,
     end_time |-> row.end_time, duration_seconds |-> row.duration_seconds,
     moves |-> row.moves, matches |-> row.matches, errors |-> row.errors,
     completed |-> row.completed, local_id |-> -1]

\* One round of background_sync: the probe, then sync_game_stat for the
\* rows sync_status lists as not synced; nobody waits for the answers.
background_sync(po) ==
    /\ pc = "idle"
    /\ online' = check_server_connection(po)
    /\ net' = IF online'
              THEN net \cup {[att |-> 0, data |-> sync_data(x), stage |-> "sent",
                              status |-> 0, id |-> 0] :
                                x \in {y \in store : \E i \in sync_status :
                                          ~i.synced /\ i.game_stats_id = y.id}}
              ELSE net
    /\ ret' = [op |-> "background", probe |-> po]
    /\ pc' = "returned"
    /\ UNCHANGED <<store, nextId, using_cached_data, cur, remote, srv,
                   srvNext, acked, saved>>

\* The outcomes of the GETs of the refresh __init__ makes.
InitFetches(po) ==
    IF check_server_connection(po)
    THEN {fs \in [1..Len(Difficulties) -> FetchOutcomes(remote)] :
            \A j \in 2..Len(Difficulties) :
               (fs[j-1].kind = "exception" \/ (fs[j-1].code = 200 /\ ~fs[j-1].json))
                  => fs[j] = fs[j-1]}
    ELSE {<<>>}

\* InitCalls with the call of detect_server_reset left out.
InitCalls_NoDetect(ok) ==
    <<"check_server_connection", "clean_database">>
       \o (IF ok THEN <<"_refresh_server_data">> ELSE <<>>)

\* The methods __init__ calls, in order, ok being the result of the probe.
InitCalls(ok) ==
    <<"check_server_connection", "clean_database">>
       \o (IF ok THEN <<"detect_server_reset", "_refresh_server_data">>
           ELSE <<>>)

\* The GETs a method of __init__ sends: the probe its health check,
\* detect_server_reset the count unless the table is empty, and
\* _refresh_server_data one leaderboard GET for each fetch it makes.
RequestsOf(call, local_count, fetches) ==
    IF call = "check_server_connection" THEN <<"health">>
    ELSE IF call = "detect_server_reset" /\ local_count > 0 THEN <<"count">>
    ELSE IF call = "_refresh_server_data"
    THEN [i \in 1..fetches |-> "leaderboard"]
    ELSE <<>>

RECURSIVE InitRequests(_, _, _)
InitRequests(calls, local_count, fetches) ==
    IF calls = <<>> THEN <<>>
    ELSE RequestsOf(Head(calls), local_count, fetches)
            \o InitRequests(Tail(calls), local_count, fetches)

\* __init__ on the database file of an earlier engine: the flags are reset,
\* the probe made, the table cleaned and, when the probe succeeded,
\* detect_server_reset called (its result is dropped) and the cache refreshed.
Restart(po, fs, now, failing) ==
    /\ pc = "idle"
    /\ LET cleaned == clean_database(store)
           calls == InitCalls(check_server_connection(po))
           r == IF \E i \in DOMAIN calls : calls[i] = "_refresh_server_data"
                THEN RefreshLoop(1, cleaned, nextId, fs, now, failing)
                ELSE [store |-> cleaned, nextId |-> nextId, fetches |-> 0]
       IN  /\ r.nextId <= MaxId + 1
           /\ store' = r.store
           /\ nextId' = r.nextId
           /\ ret' = [op |-> "init", probe |-> po, calls |-> calls,
                      requests |-> InitRequests(calls, Cardinality(cleaned),
                                                r.fetches)]
    /\ online' = check_server_connection(po)
    /\ using_cached_data' = FALSE
    /\ pc' = "returned"
    /\ UNCHANGED <<cur, remote, srv, srvNext, net, acked, saved>>

\* The application takes the returned value and goes on.
Return ==
    /\ pc = "returned"
    /\ pc' = "idle"
    /\ ret' = NoReturn
    /\ UNCHANGED <<store, nextId, online, using_cached_data, cur,
                   remote, srv, srvNext, net, acked, saved>>

(***************************************************************************)
(* Environment.                                                            *)
(***************************************************************************)
RemoteChange ==
    /\ remote' \in RemoteStates \ {remote}
    /\ UNCHANGED <<clientVars, srv, srvNext, net>>

\* The operator of the server deletes its database and restarts it; the
\* requests the old process held die with it.
ServerReset ==
    /\ srv # {}
    /\ srv' = {}
    /\ srvNext' = 1
    /\ net' = {}
    /\ UNCHANGED <<clientVars, remote>>

Init ==
    /\ store = {}
    /\ nextId = 1
    /\ remote \in RemoteStates
    /\ online \in {check_server_connection(o) : o \in ProbeOutcomes(remote)}
    /\ using_cached_data = FALSE
    /\ pc = "idle"
    /\ cur = NoCall
    /\ ret = NoReturn
    /\ srv = {}
    /\ srvNext = 1
    /\ net = {}
    /\ acked = {}
    /\ saved = 0

\* The number of recorded game ends that are still in the store.
LocalCount == Cardinality({x \in store : x.source = "local"})

Next ==
    \/ \E g \in Games, dbok \in BOOLEAN :
          \E o \in (IF dbok THEN OwnProbes ELSE {NoOutcome}) :
             saved < MaxSaves /\ SaveBegin(g, dbok, o)
    \/ AttemptSend
    \/ \E o \in SaveFailures(remote) : AttemptFail(o)
    \/ RecvReply
    \/ AttemptTimeout
    \/ save_stats
    \/ \E d \in DifficultyArgs, n \in {1, MaxLimit} :
          \E po1 \in OwnProbes : \E po2 \in InnerProbes(po1) :
             \E fo \in FetchesAfter(po2) : GetLeaderboard(d, n, po1, po2, fo)
    \/ \E p \in Players : \E fo \in PlayerFetches : GetPlayerStats(p, fo)
    \/ \E p \in Players : GetMergedStats(p)
    \/ \E po \in OwnProbes : \E fs \in RefreshFetches(po) :
          \E now \in NowValues, failing \in SUBSET Replaced(fs) :
             RefreshAll(po, fs, now, failing)
    \/ Return
    \/ RemoteChange
    \/ ServerReset

Spec == Init /\ [][Next]_vars

\* The system with the maintenance operations of the engine: the probe of
\* force_sync_all, reset detection, the reset of the local table, a round
\* of background_sync, and the construction of a new engine on the file.
Maintenance ==
    \/ \E po \in OwnProbes : force_sync_all(po)
    \/ \E o \in CountOutcomes(remote) \cup {NoOutcome} : DetectServerReset(o)
    \/ \E dbok \in BOOLEAN : prompt_reset_local_cache(dbok)
    \/ \E po \in ProbeOutcomes(remote) : background_sync(po)
    \/ \E po \in ProbeOutcomes(remote) : \E fs \in InitFetches(po) :
          \E now \in NowValues, failing \in SUBSET Replaced(fs) :
             Restart(po, fs, now, failing)

NextMaint == Next \/ Maintenance

SpecMaint == Init /\ [][NextMaint]_vars

\* The engine while the remote cannot be reached: game ends are recorded,
\* the leaderboard and the player's statistics read, the table reset and a
\* new engine constructed on the file; DownGames adds a second game of Ana
\* that ended with the result of the first, and a game that ties with it
\* on the duration.
DownGames ==
    Games \cup {Game("Ana", "Easy", 5000, 47500, 10, 8, TRUE),
                Game("Bob", "Easy", 3000, 45500, 9, 8, TRUE)}

InitDown == Init /\ remote = "down"

NextDown ==
    \/ \E g \in DownGames, dbok \in BOOLEAN :
          \E o \in (IF dbok THEN OwnProbes ELSE {NoOutcome}) :
             saved < MaxDownSaves /\ SaveBegin(g, dbok, o)
    \/ \E d \in DifficultyArgs, n \in {1, MaxLimit} :
          \E po1 \in OwnProbes : \E po2 \in InnerProbes(po1) :
             \E fo \in FetchesAfter(po2) : GetLeaderboard(d, n, po1, po2, fo)
    \/ \E p \in Players : \E fo \in PlayerFetches : GetPlayerStats(p, fo)
    \/ \E dbok \in BOOLEAN : prompt_reset_local_cache(dbok)
    \/ \E po \in ProbeOutcomes(remote) : \E fs \in InitFetches(po) :
          \E now \in NowValues, failing \in SUBSET Replaced(fs) :
             Restart(po, fs, now, failing)
    \/ Return

SpecDown == InitDown /\ [][NextDown]_vars

\* The engine with this repository's server as its remote: game ends are
\* recorded and pushed, the server answers every request it is sent, and
\* the player's statistics are read.
NextOwnServer ==
    \/ \E g \in Games : \E o \in OwnProbes :
          saved < MaxSaves /\ SaveBegin(g, TRUE, o)
    \/ AttemptSend
    \/ \E o \in {RequestException} : remote = "down" /\ AttemptFail(o)
    \/ RecvReply
    \/ save_stats
    \/ \E po \in OwnProbes : force_sync_all(po)
    \/ \E p \in Players : \E fo \in OwnServerPlayerFetches :
          GetPlayerStats(p, fo)
    \/ Return
    \/ RemoteChange

SpecOwnServer == Init /\ [][NextOwnServer]_vars

\* The retry loop of save_game_stats alone: the first good attempts fail
\* with 503 (all of them when good is above max_retries), the next one is
\* answered 200; the result is the timeouts and delays of the burst.
BurstOutcomes(good) ==
    [k \in 1..max_retries |-> IF k = good THEN Status(200) ELSE Status(503)]

RetryBurst(good, js) ==
    /\ pc = "idle"
    /\ LET b == RetryLoop(1, BurstOutcomes(good), js, <<>>, <<>>)
       IN  ret' = [op |-> "burst", timeouts |-> b.timeouts, waits |-> b.waits,
                   last |-> b.last]
    /\ pc' = "returned"
    /\ UNCHANGED <<store, nextId, online, using_cached_data, cur, remote,
                   srv, srvNext, net, acked, saved>>

NextBurst ==
    \/ \E good \in 1..(max_retries + 1), js \in [1..max_retries -> Jitters] :
          RetryBurst(good, js)
    \/ Return

SpecBurst == Init /\ [][NextBurst]_vars

\* The engine used for nothing but calls of detect_server_reset, on tables
\* of up to MaxLocalCount rows and of 100, and servers on both sides of the
\* two thresholds.
LocalCounts == 0..MaxLocalCount \cup {100}
ServerCounts == {0, 3, 9, 10, 11, 60}
CountInputs ==
    {CountReply(n) : n \in ServerCounts} \cup {NoCountReply} \cup CountFailures

NextReset ==
    \/ \E local_count \in LocalCounts, o \in CountInputs :
          DetectCounts(local_count, o)
    \/ Return

SpecReset == Init /\ [][NextReset]_vars

\* Completed games of two difficulties.
WipeGames ==
    { Game("Ana", "Easy", 1000, 43500, 10, 8, TRUE),
      Game("Bob", "Medium", 2000, 63000, 12, 6, TRUE) }

\* The answers of a healthy server to the GETs of one refresh.
HealthyFetches(po) ==
    IF online \/ check_server_connection(po)
    THEN {[i \in 1..Len(Difficulties) |-> Reply(200, TRUE)]}
    ELSE {<<>>}

\* The engine and a healthy server whose operator deletes its database:
\* game ends are recorded and pushed and the cache is refreshed, before
\* and after the server's data is deleted.
NextWipe ==
    \/ \E g \in WipeGames : \E o \in OwnProbes :
          saved < MaxWipeSaves /\ SaveBegin(g, TRUE, o)
    \/ AttemptSend
    \/ RecvReply
    \/ save_stats
    \/ \E po \in OwnProbes : \E fs \in HealthyFetches(po) :
          \E now \in NowValues :
             RefreshWithin(MaxWipeId + 1, po, fs, now, {})
    \/ Return
    \/ ServerReset

SpecWipe == Init /\ [][NextWipe]_vars

\* The engine used for nothing but calls of _deduplicate_stats.
NextDedup ==
    \/ \E l \in StatLists(MaxList) : Dedup(l)
    \/ Return

SpecDedup == Init /\ [][NextDedup]_vars

\* One step of the call of save_game_stats in progress: requests.post
\* returns or raises within its timeout, and time.sleep returns.
ClientStep ==
    \/ AttemptSend
    \/ \E o \in SaveFailures(remote) : AttemptFail(o)
    \/ RecvReply
    \/ AttemptTimeout

\* Recording game ends against a remote that behaves in any way, with the
\* call in progress always taking its next step.
NextLive ==
    \/ \E g \in Games, dbok \in BOOLEAN :
          \E o \in (IF dbok THEN OwnProbes ELSE {NoOutcome}) :
             saved < MaxSaves /\ SaveBegin(g, dbok, o)
    \/ ClientStep
    \/ save_stats
    \/ Return
    \/ RemoteChange
    \/ ServerReset

SpecLive == Init /\ [][NextLive]_vars /\ WF_vars(ClientStep)

\* The engine and a server whose data nobody deletes: game ends are
\* recorded and pushed, the local table reset, the cache refreshed and
\* detect_server_reset called.
NextRepair ==
    \/ \E g \in Games : \E o \in OwnProbes :
          saved < MaxSaves /\ SaveBegin(g, TRUE, o)
    \/ ClientStep
    \/ save_stats
    \/ \E dbok \in BOOLEAN : prompt_reset_local_cache(dbok)
    \/ \E po \in OwnProbes : \E fs \in RefreshFetches(po) :
          \E now \in NowValues, failing \in SUBSET Replaced(fs) :
             RefreshAll(po, fs, now, failing)
    \/ \E o \in CountOutcomes(remote) \cup {NoOutcome} : DetectServerReset(o)
    \/ Return
    \/ RemoteChange

SpecRepair == Init /\ [][NextRepair]_vars

\* requests.post towards the threaded server: the request of a retry is
\* accepted while the handler of an attempt that timed out still runs.
ThreadedSend ==
    /\ pc = "attempt"
    /\ remote = "up"
    /\ Cardinality(net) < MaxThreads
    /\ net' = net \cup {[att |-> cur.attempt, data |-> cur.data,
                         stage |-> "sent", status |-> 0, id |-> 0]}
    /\ pc' = "wait"
    /\ UNCHANGED <<store, nextId, online, using_cached_data, cur, ret,
                   remote, srv, srvNext, acked, saved>>

\* The system with the server's save handlers interleaved.
NextThreaded ==
    \/ \E g \in Games, dbok \in BOOLEAN :
          \E o \in (IF dbok THEN OwnProbes ELSE {NoOutcome}) :
             saved < MaxSaves /\ SaveBegin(g, dbok, o)
    \/ ThreadedSend
    \/ \E o \in SaveFailures(remote) : AttemptFail(o)
    \/ RecvReply
    \/ AttemptTimeout
    \/ SrvCheck
    \/ SrvInsert
    \/ Return
    \/ RemoteChange

SpecThreaded == Init /\ [][NextThreaded]_vars

(***************************************************************************)
(* Properties.                                                             *)
(***************************************************************************)
Returned(op) == pc = "returned" /\ ret.op = op
InCall == pc \in {"attempt", "wait"}
HasLocal(id) == \E x \in store : x.id = id /\ x.source = "local"
Is200(o) == o.kind = "status" /\ o.code = 200

\* The call returned the remote's list: it made one GET, answered 200 with a
\* JSON document.
Served(r) == Len(r.fetches) = 1 /\ Is200(r.fetches[1]) /\ r.fetches[1].json

\* The last probe of the call failed.
ProbeFailed(r) == r.probes # <<>> /\ ~Is200(r.probes[Len(r.probes)])

\* C1: save_game_stats has inserted its row, tagged source = local, before
\* any POST of the call is made, and whatever the remote does it returns the
\* id of that row, which is then still in the store.
C1_LocalRowFirst ==
    /\ InCall => HasLocal(cur.local_id) /\ cur.local_id = nextId - 1
    /\ \A r \in net : InCall /\ Mine(r) => HasLocal(r.data.local_id)
    /\ Returned("save") /\ ret.id # -1 => HasLocal(ret.id) /\ ret.id = nextId - 1

\* A call whose five attempts all failed has returned.
C1_Witness ==
    /\ Returned("save")
    /\ ret.attempts = max_retries
    /\ ret.last = RequestException
    /\ HasLocal(ret.id)

\* C2: the call makes min(5, k) attempts, k the index of the first attempt
\* that ends in 200, 409 or another status below 500 other than 429: a
\* further attempt is made only after outcomes that are none of these, and
\* the call returns after a last attempt that is one of these or the fifth.
C2_AttemptCount ==
    /\ InCall => cur.clean /\ cur.attempt \in 1..max_retries
    /\ Returned("save") /\ ret.attempts > 0 =>
          /\ ret.clean
          /\ ret.attempts <= max_retries
          /\ Final(ret.last) \/ ret.attempts = max_retries

\* Four 503s, then a 200 on the fifth attempt.
C2_Witness ==
    /\ Returned("save")
    /\ ret.attempts = 5
    /\ ret.only503
    /\ ret.last = Status(200)

\* C3: with the save handler run for one request at a time, the server holds
\* at most one row per (client_id, local_id); a 409 carries the id of the
\* stored row of that pair; and the client, having got a 409, returns the
\* local id without a further attempt.
C3_DuplicateAnswered409 ==
    /\ \A x, y \in srv :
          x.client_id = y.client_id /\ x.local_id = y.local_id => x = y
    /\ \A r \in net :
          r.stage = "replied" /\ r.status = 409 =>
             \E x \in srv : /\ x.id = r.id
                            /\ x.client_id = r.data.client_id
                            /\ x.local_id = r.data.local_id
    /\ Returned("save") /\ ret.last = Status(409) =>
          /\ ret.clean
          /\ HasLocal(ret.id)
          /\ ~\E r \in net : r.data.local_id = ret.id /\ r.att > ret.attempts

\* The client has got a 409 for a retry of a request the server had stored.
C3_Witness == Returned("save") /\ ret.last = Status(409) /\ ret.attempts > 1

\* C4: a leaderboard that is not the remote's answer has rows of
\* source = local only.
C4_FallbackLocalOnly ==
    Returned("leaderboard") /\ ~Served(ret) =>
        \A i \in 1..Len(ret.rows) : ret.rows[i].source = "local"

\* A fallback leaderboard with rows, read while the store caches a
\* server row that the query would otherwise match.
C4_Witness ==
    /\ Returned("leaderboard")
    /\ ~Served(ret)
    /\ ret.rows # <<>>
    /\ \E x \in store : /\ x.source = "server"
                        /\ x.completed
                        /\ (ret.difficulty = None \/ x.difficulty = ret.difficulty)

\* C5: after a get_leaderboard whose probe failed, every returned row is
\* tagged cached = true with a reason and using_cached_data is true.
C5_ProbeFailedRowsTagged ==
    Returned("leaderboard") /\ ProbeFailed(ret) =>
        /\ using_cached_data
        /\ \A i \in 1..Len(ret.rows) :
              /\ "cached" \in DOMAIN ret.rows[i]
              /\ "warning" \in DOMAIN ret.rows[i]

\* C6: a get_leaderboard that got 200 from the remote returns the list the
\* server's handler built, and leaves the local table as it was.
C6_RemoteListUnmerged ==
    [][ (pc = "idle" /\ pc' = "returned" /\ ret'.op = "leaderboard"
         /\ Served(ret')) =>
            /\ ret'.rows = ServerLeaderboard(srv,
                              IF ret'.difficulty = None THEN "all"
                              ELSE ret'.difficulty, ret'.limit)
            /\ store' = store
            /\ nextId' = nextId ]_vars

\* The remote's list was returned while the local table had more rows to
\* offer for the same query.
C6_Witness ==
    /\ Returned("leaderboard")
    /\ Served(ret)
    /\ Len(LocalLeaderboard(store, ret.difficulty, ret.limit)) > Len(ret.rows)

\* C7: a read that did not return the remote's answer returns local data
\* with a reason, and the reason is the server-error one exactly when the
\* GET was answered with a status other than 200.
C7_FallbackHasReason ==
    /\ Returned("leaderboard") /\ ~Served(ret) =>
          \A i \in 1..Len(ret.rows) :
              /\ "warning" \in DOMAIN ret.rows[i]
              /\ (ret.rows[i].warning.text = "LOCAL DATA ONLY - Server error")
                    = (ret.fetches # <<>> /\ ret.fetches[1].kind = "status"
                       /\ ret.fetches[1].code # 200)
    /\ Returned("player") /\ ~Served(ret) =>
          /\ ret.result.using_cached
          /\ ret.result.error # NoError
          /\ (ret.result.error.text = "Server error")
                = (ret.fetches # <<>> /\ ret.fetches[1].kind = "status"
                   /\ ret.fetches[1].code # 200)

\* C8: a read makes at most one GET of data.
C8_OneFetchPerRead ==
    Returned("leaderboard") \/ Returned("player") => Len(ret.fetches) <= 1

\* A leaderboard read fell back after its one GET failed.
C8_Witness ==
    /\ Returned("leaderboard")
    /\ Len(ret.fetches) = 1
    /\ ~Served(ret)

\* C9: get_player_remote_stats called while the remote is reachable, none of
\* its requests failing, returns the remote list with using_cached false.
C9_ReachableMeansRemote ==
    Returned("player") /\ ret.reachable
        /\ (\A i \in 1..Len(ret.fetches) : Is200(ret.fetches[i]) /\ ret.fetches[i].json) =>
            /\ ~ret.result.using_cached
            /\ Served(ret)

\* C10: in an online result, local_stats holds no record whose POST was
\* answered 200 or 409.
C10_LocalOnlyUnconfirmed ==
    Returned("player") /\ ~ret.result.using_cached =>
        \A i \in 1..Len(ret.result.local_stats) :
            ret.result.local_stats[i].id \notin acked

\* The keys of a list of stats, and the place a key first occurs at.
KeysOf(l) == {StatKey(l[i]) : i \in 1..Len(l)}
FirstAt(l, k) == CHOOSE i \in 1..Len(l) :
                    StatKey(l[i]) = k /\ \A j \in 1..(i - 1) : StatKey(l[j]) # k

\* C12: _deduplicate_stats applied to its own output returns that output,
\* element for element.
C12_DedupIdempotent ==
    Returned("dedup") => _deduplicate_stats(ret.output) = ret.output

\* A list of three from both sources of which the merge dropped one.
C12_Witness ==
    /\ Returned("dedup")
    /\ Len(ret.input) = 3
    /\ Len(ret.output) = 2
    /\ \E i, j \in 1..3 : ret.input[i].source = "local"
                          /\ ret.input[j].source = "server"

Identity(stat) ==
    IF SourceOf(stat) = "server" /\ "id" \in DOMAIN stat
    THEN <<"id", stat.id>>
    ELSE <<"sig", stat.player_name, stat.difficulty,
           Round2(stat.duration_seconds),
           IF "errors" \in DOMAIN stat THEN stat.errors ELSE 0>>

\* C15: records are merged exactly when they have the same identity, a local
\* rowid never being one: the output has as many records as the input has
\* identities.
C15_KeyIsServerIdOrComposite ==
    Returned("dedup") =>
        Len(ret.output)
           = Cardinality({Identity(ret.input[i]) : i \in 1..Len(ret.input)})

\* C16: the list get_player_stats returns never holds a local row together
\* with the cached server copy of the same game (same player, difficulty,
\* duration and errors).
C16_OneEntryPerGame ==
    Returned("merged") =>
        \A i, j \in 1..Len(ret.rows) :
            (ret.rows[i].source = "local" /\ ret.rows[j].source = "server") =>
                ~(/\ ret.rows[i].player_name = ret.rows[j].player_name
                  /\ ret.rows[i].difficulty = ret.rows[j].difficulty
                  /\ ret.rows[i].duration_seconds = ret.rows[j].duration_seconds
                  /\ ret.rows[i].errors = ret.rows[j].errors)

\* No two records of the list have the same identity.
UniqueIdentities(l) ==
    \A i, j \in 1..Len(l) : i # j => Identity(l[i]) # Identity(l[j])

\* C11: neither list of the result of get_player_remote_stats holds two
\* records of the same identity.
C11_PlayerListsDeduplicated ==
    Returned("player") =>
        /\ UniqueIdentities(ret.result.stats)
        /\ UniqueIdentities(ret.result.local_stats)

\* The cached server rows of a difficulty, and the same without row ids.
ServerRows(rows, d) == {x \in rows : x.source = "server" /\ x.difficulty = d}
Cached(rows, d) == {[x EXCEPT !.id = 0] : x \in ServerRows(rows, d)}
LocalRows(rows) == {x \in rows : x.source = "local"}

\* The rows synthesized at time now from the server's leaderboard of d.
Fresh(d, now) ==
    LET l == ServerLeaderboard(srv, d, RefreshLimit)
    IN  {ServerSourcedRow(l[i], 0, now) : i \in 1..Len(l)}

\* The refresh that has just returned fetched the i-th difficulty with 200
\* and a readable body.
Fetched(r, i) ==
    /\ i <= Len(r.outcomes)
    /\ Is200(r.outcomes[i])
    /\ r.outcomes[i].json

\* C17: a step leaves the cached server rows of a difficulty as they were or
\* replaces them by the complete set of the response, and a replace that
\* fails leaves them as they were.
C17_ReplaceAllOrNothing ==
    [][ /\ \A i \in 1..Len(Difficulties) :
             \/ ServerRows(store', Difficulties[i])
                  = ServerRows(store, Difficulties[i])
             \/ \E now \in NowValues :
                   Cached(store', Difficulties[i]) = Fresh(Difficulties[i], now)
        /\ (pc = "idle" /\ pc' = "returned" /\ ret'.op = "refresh") =>
              \A i \in ret'.failed :
                 ServerRows(store', Difficulties[i])
                   = ServerRows(store, Difficulties[i]) ]_vars

\* A refresh returned whose replace of a difficulty failed, and the rows
\* cached for that difficulty by an earlier refresh are in the store.
C17_Witness ==
    /\ Returned("refresh")
    /\ \E i \in ret.failed : ServerRows(store, Difficulties[i]) # {}

\* C18: after a refresh fetched a difficulty with 200 and replaced it, the
\* cached server rows of the difficulty are the rows of the response.
C18_CacheEqualsResponse ==
    [][ (pc = "idle" /\ pc' = "returned" /\ ret'.op = "refresh") =>
           \A i \in 1..Len(Difficulties) :
              (Fetched(ret', i) /\ i \notin ret'.failed) =>
                 \E now \in NowValues :
                    Cached(store', Difficulties[i]) = Fresh(Difficulties[i], now)
      ]_vars

C20_RowArithmetic ==
    \A x \in store :
       /\ x.duration_seconds = x.end_time - x.start_time
       /\ x.errors = Max(0, x.moves - x.matches)
       /\ x.errors >= 0

\* C21: a step leaves every row that stays in the store as it was: rows are
\* inserted and deleted, never updated.
C21_RowsNeverUpdated ==
    [][ \A x \in store : \A y \in store' : x.id = y.id => x = y ]_vars

\* A second replace of the cache has happened: the local row of the game is
\* in the store as inserted, next to a cache row with a later id than the
\* first replace gave.
C21_Witness ==
    /\ pc = "returned" /\ ret.op \in {"refresh", "init"}
    /\ \E g \in Games : LocalRow(g, 1) \in store
    /\ \E x \in store : x.source = "server" /\ x.id >= 3

\* C22: a step that removes a source = local row from the store is a call of
\* prompt_reset_local_cache.
C22_LocalRowsLeaveOnlyByReset ==
    [][ (\E x \in LocalRows(store) : x \notin store') =>
           (pc = "idle" /\ pc' = "returned" /\ ret'.op = "reset") ]_vars

\* The count of the server was fetched: 200 and a JSON object with "count".
CountFetched(o) == Is200(o) /\ o.json /\ o.has_count

\* C23: detect_server_reset returns true exactly when the count was fetched
\* and is below half the local count and below 10.
C23_ResetIffFewOnServer ==
    Returned("detect") =>
        (ret.result <=>
            /\ CountFetched(ret.outcome)
            /\ 2 * ret.outcome.count < ret.local_count
            /\ ret.outcome.count < 10)

\* C24: a prompt_reset_local_cache that returns True leaves the table empty,
\* and a leaderboard or player read that falls back on an empty table, or
\* get_player_stats on it, returns no rows.
C24_ResetLeavesNothing ==
    [][ (pc = "idle" /\ pc' = "returned") =>
           /\ (ret'.op = "reset" /\ ret'.result) => store' = {}
           /\ (ret'.op = "leaderboard" /\ ~Served(ret') /\ store = {}) =>
                 ret'.rows = <<>>
           /\ (ret'.op = "player" /\ ret'.result.using_cached /\ store = {}) =>
                 ret'.result.stats = <<>> /\ ret'.result.local_stats = <<>>
           /\ (ret'.op = "merged" /\ store = {}) => ret'.rows = <<>> ]_vars

\* A leaderboard read fell back on the table a reset has emptied: ids have
\* been given out, and no row is left.
C24_Witness ==
    /\ Returned("leaderboard") /\ ~Served(ret)
    /\ store = {} /\ nextId > 1
    /\ ret.rows = <<>>

\* C25: save_game_stats returns -1 exactly when its INSERT failed; then the
\* store is as before, no id is used up and no POST is made; a call that
\* goes on to the POST has inserted its row.
C25_InsertFailureSurfaced ==
    [][ /\ (pc = "idle" /\ pc' = "returned" /\ ret'.op = "save") =>
              /\ (store' = store) <=> (ret'.id = -1)
              /\ ret'.id = -1 =>
                    /\ ret'.attempts = 0
                    /\ net' = net
                    /\ nextId' = nextId
                    /\ cur' = NoCall
        /\ (pc = "idle" /\ pc' = "attempt") => store' # store ]_vars

\* save_game_stats returned -1 on an engine that is online with the remote
\* up: the POST would have been made had the INSERT succeeded.
C25_Witness ==
    /\ Returned("save") /\ ret.id = -1
    /\ online /\ remote = "up"
    /\ net = {}

\* The save requests the server holds and has not yet handled.
Pending(n) == {r \in n : r.stage = "sent"}

C27_WaitsIncrease ==
    Returned("burst") =>
        \A k \in 1..(Len(ret.waits) - 1) : ret.waits[k + 1] > ret.waits[k]

\* C28: the delay after failed attempt k lies between 0.5 and 1.0 times
\* base * 2^(k-1), no delay follows the last attempt, and each timeout is 5 s
\* longer than the one before.
C28_WaitAndTimeoutRanges ==
    Returned("burst") =>
        /\ \A k \in 1..Len(ret.waits) :
              /\ 2 * ret.waits[k] >= base_delay * (2 ^ (k - 1))
              /\ ret.waits[k] <= base_delay * (2 ^ (k - 1))
        /\ Len(ret.waits) <= max_retries - 1
        /\ Len(ret.waits) \in {Len(ret.timeouts), Len(ret.timeouts) - 1}
        /\ Len(ret.timeouts) = max_retries => Len(ret.waits) = max_retries - 1
        /\ \A k \in 1..(Len(ret.timeouts) - 1) :
              ret.timeouts[k + 1] = ret.timeouts[k] + 5

\* The operations that make a connectivity probe.
ProbingOps == {"save", "leaderboard", "refresh", "force_sync", "background",
               "init"}

\* C29: after a probe self.online says whether the GET returned 200; a call
\* that only probes changes nothing else, and self.online changes in no
\* step but the start of an operation that probes.
C29_OnlineIsLastProbe ==
    [][ /\ (pc = "idle" /\ pc' = "returned"
            /\ ret'.op \in {"force_sync", "background", "init"}) =>
              online' = IF ret'.probe = NoOutcome THEN online
                        ELSE Is200(ret'.probe)
        /\ (pc = "idle" /\ pc' = "returned" /\ ret'.op = "leaderboard") =>
              online' = IF ret'.probes = <<>> THEN online
                        ELSE Is200(ret'.probes[Len(ret'.probes)])
        /\ (pc = "idle" /\ pc' = "returned"
            /\ ret'.op \in {"force_sync", "background"}) =>
              UNCHANGED <<store, nextId, using_cached_data, cur, remote, srv,
                          srvNext, net, acked, saved>>
        /\ online' # online =>
              /\ pc = "idle"
              /\ \/ pc' = "attempt" /\ online'
                 \/ pc' = "returned" /\ ret'.op \in ProbingOps ]_vars

\* A round of background_sync on an engine that was online (the remote has
\* accepted a row of it) probed a remote that did not answer, and the
\* engine is offline.
C29_Witness ==
    /\ Returned("background")
    /\ ret.probe = RequestException
    /\ ~online
    /\ acked # {}

\* The rows the local leaderboard ranks: the completed source = local rows,
\* of the difficulty when one is given.
Ranked(difficulty) ==
    {x \in store : /\ x.completed /\ x.source = "local"
                   /\ (difficulty = None \/ x.difficulty = difficulty)}

\* a ranks before b: shorter, or as long with fewer errors.
Better(a, b) ==
    \/ a.duration_seconds < b.duration_seconds
    \/ a.duration_seconds = b.duration_seconds /\ a.errors < b.errors

C31_PlayerReadServed ==
    (Returned("player") /\ ret.reachable /\ ret.fetches # <<>>) =>
        /\ ~ret.result.using_cached
        /\ ret.result.error = NoError
        /\ {ret.result.stats[i].id : i \in 1..Len(ret.result.stats)}
             = {x.id : x \in {y \in srv : y.player_name = ret.player}}

\* C32: with the handlers of the threaded server interleaved with the
\* client's retries, the server holds at most one row for each
\* (client_id, local_id).
C32_OneRowPerGameThreaded ==
    \A x, y \in srv :
        x.client_id = y.client_id /\ x.local_id = y.local_id => x = y

\* C33: every call of save_game_stats that has begun its attempts returns,
\* whatever the remote does, and until then it is at one of the attempts
\* 1..max_retries.
C33_SaveTerminates ==
    /\ InCall ~> Returned("save")
    /\ [](InCall => cur.attempt \in 1..max_retries)

\* The call has returned after a fifth attempt that failed like the four
\* before it.
C33_Witness ==
    /\ Returned("save")
    /\ ret.attempts = max_retries
    /\ ret.last = RequestException

\* C34: __init__ makes the probe before anything else and calls
\* detect_server_reset and then _refresh_server_data, each once, exactly
\* when the probe succeeded; when the probe fails the health check is its
\* only request and no source = server row is inserted.
C34_ConstructionOrder ==
    [][ (pc = "idle" /\ pc' = "returned" /\ ret'.op = "init") =>
          LET ok == check_server_connection(ret'.probe)
              calls == ret'.calls
              At(c) == {i \in DOMAIN calls : calls[i] = c}
          IN  /\ calls[1] = "check_server_connection"
              /\ ret'.requests[1] = "health"
              /\ Cardinality(At("check_server_connection")) = 1
              /\ Cardinality(At("detect_server_reset")) = (IF ok THEN 1 ELSE 0)
              /\ Cardinality(At("_refresh_server_data")) = (IF ok THEN 1 ELSE 0)
              /\ \A i \in At("detect_server_reset") :
                    \A j \in At("_refresh_server_data") : 1 < i /\ i < j
              /\ ~ok => /\ ret'.requests = <<"health">>
                        /\ {x \in store' : x.source = "server"} \subseteq store
              /\ online' = ok ]_vars

\* A construction on a table with rows whose probe succeeded: it asked for
\* the count and for the leaderboard of every difficulty, and cached rows.
C34_Witness ==
    /\ Returned("init")
    /\ check_server_connection(ret.probe)
    /\ Len(ret.requests) = 2 + Len(Difficulties)
    /\ ret.requests[2] = "count"
    /\ \E x \in store : x.source = "server"

\* C35: a _refresh_server_data made offline whose probe fails leaves the
\* table as it was, and any _refresh_server_data leaves the source = server
\* rows of a difficulty as they were when the GET for that difficulty raised
\* or was answered with a status other than 200.
C35_FailedFetchKeepsCache ==
    [][ (pc = "idle" /\ pc' = "returned" /\ ret'.op = "refresh") =>
          /\ (~online /\ ~online') => store' = store /\ ret'.outcomes = <<>>
          /\ \A i \in DOMAIN ret'.outcomes :
                ~(Is200(ret'.outcomes[i]) /\ ret'.outcomes[i].json) =>
                   ServerRows(store', Difficulties[i])
                      = ServerRows(store, Difficulties[i]) ]_vars

\* A refresh whose GET for a difficulty was answered with an error status
\* while the table caches a server row of that difficulty.
C35_Witness ==
    /\ Returned("refresh")
    /\ \E i \in DOMAIN ret.outcomes :
          /\ ret.outcomes[i].kind = "status"
          /\ ret.outcomes[i].code # 200
          /\ ServerRows(store, Difficulties[i]) # {}

\* C36: while the server's data is not deleted and the local table holds
\* no source = local row (as after prompt_reset_local_cache, with or
\* without a refresh after it), detect_server_reset returns False.
C36_NoResetAfterRepair ==
    (Returned("detect") /\ LocalRows(store) = {}) => ~ret.result

\* C37: no two source = server rows of the local table carry the same
\* server_id.
C37_ServerIdsUnique ==
    \A x, y \in store :
        (x.source = "server" /\ y.source = "server"
         /\ x.server_id = y.server_id) => x = y

\* C38: after a get_leaderboard or a get_player_remote_stats that returned
\* the remote's answer to a GET answered 200, using_cached_data is false.
C38_FlagDescribesLastRead ==
    ((Returned("leaderboard") \/ Returned("player")) /\ Served(ret)) =>
        ~using_cached_data

\* The row shows the game g: its player, difficulty and duration.
Shows(row, g) ==
    /\ row.player_name = g.player_name
    /\ row.difficulty = g.difficulty
    /\ row.duration_seconds = g.end_time - g.start_time

ShowsAbandoned(row) == \E g \in Games : ~g.completed /\ Shows(row, g)

\* C39: no abandoned game is shown by a row of a list get_leaderboard
\* returns, by a row of a leaderboard the server's handler answers with, or
\* by a cached source = server row.
C39_AbandonedNeverRanked ==
    /\ Returned("leaderboard") =>
          \A i \in 1..Len(ret.rows) : ~ShowsAbandoned(ret.rows[i])
    /\ \A d \in {Difficulties[i] : i \in 1..Len(Difficulties)} \cup {"all"} :
          LET l == ServerLeaderboard(srv, d, RefreshLimit)
          IN  \A i \in 1..Len(l) : ~ShowsAbandoned(l[i])
    /\ \A x \in store : x.source = "server" => ~ShowsAbandoned(x)

\* A leaderboard of all difficulties was served by the remote while both
\* the local table and the server hold an abandoned game.
C39_Witness ==
    /\ Returned("leaderboard")
    /\ Served(ret)
    /\ ret.difficulty = None
    /\ \E x \in store : x.source = "local" /\ ~x.completed
    /\ \E x \in srv : ~x.completed

=============================================================================
